---- MODULE Spec2Model ----
(***************************************************************************)
(* External signer service (src/external-signer/external-signer-service.js) *)
(* as a state machine.  The service is a single-threaded event loop: every  *)
(* action below is one run-to-completion slice of JavaScript, from the      *)
(* moment a callback or an await continuation starts until the next await.  *)
(***************************************************************************)
EXTENDS Integers, Sequences, FiniteSets, Bags, TLC

\* ---------------------------------------------------------------- bounds
MaxRows     == 2    \* payout rows in the backend queue
MaxCycles   == 2    \* pollLoop invocations in one behaviour
MaxHealth   == 1    \* GET /health requests in one behaviour

\* ------------------------------------------------------ program constants
MAX_CONCURRENT == 2

Undefined == "<undefined>"
Pending   == "<pending>"

Required == {"SUPABASE_URL", "SUPABASE_SERVICE_ROLE_KEY",
             "SUPABASE_WEBHOOK_URL", "XRP_HOT_WALLET_SEED"}

\* Environments the service is started with: nothing missing, or one of the
\* required variables missing.
MissingChoices == {{}} \cup {{v} : v \in Required}

\* CONTROL_BEARER_TOKEN values ("" stands for unset or empty: both falsy).
Tokens == {"", "s3cret"}

\* Authorization headers a POST /process request may carry.
AuthHeaders == {Undefined, "Bearer s3cret", "Bearer wrong", "s3cret",
                "Bearer s3cret "}

\* The headers of the requests of the whole-service specification.
PlainHeaders == {Undefined, "Bearer s3cret"}

\* <<XRPL_SERVERS, XRPL_SERVER>> settings: XRPL_SERVERS is Undefined or its
\* raw entries after split(","); XRPL_SERVER is Undefined or one url.
EndpointChoices == {<<Undefined, Undefined>>,
                    <<Undefined, "wss://c">>,
                    <<<<"wss://a", " wss://b ">>, Undefined>>,
                    <<<<" ">>, "wss://c">>}

\* Engine results a ledger submission can return (Undefined: no result field).
Engines == {"tesSUCCESS", "tecUNFUNDED_PAYMENT", Undefined}

Rows == 1..MaxRows

NoClient == [url |-> Undefined, connected |-> FALSE]
NoResp   == [auth |-> Undefined, code |-> 0, started |-> FALSE]

VARIABLES
  missing,               \* required environment variables that are not set
  CONTROL_BEARER_TOKEN,
  XRPL_SERVERS,
  XRPL_SERVER,
  booted,                \* the app.listen callback has run
  wallet,                \* TRUE when the wallet object is defined
  client,                \* NoClient, or the stored session [url, connected]
  orphans,               \* connected sessions no longer stored in client
  inFlight,
  cycles,                \* bag of the suspended pollLoop invocations
  nCycles,               \* pollLoop invocations so far
  attempts,              \* bag of the processOne invocations not yet ended
  queued,                \* rows whose backend status is still "queued"
  timers,                \* pending setTimeout(pollLoop, 50) callbacks
  healths,               \* bag of the GET /health handlers suspended in connectClient
  nHealth,               \* GET /health requests so far
  resp                   \* HTTP response sent by the latest step, or NoResp

vars == <<missing, CONTROL_BEARER_TOKEN, XRPL_SERVERS, XRPL_SERVER, booted,
          wallet, client, orphans, inFlight, cycles, nCycles, attempts,
          queued, timers, healths, nHealth, resp>>

config == <<missing, CONTROL_BEARER_TOKEN, XRPL_SERVERS, XRPL_SERVER>>

health == <<healths, nHealth>>

One(x) == SetToBag({x})

\* ------------------------------------------------------------ WS_DEFAULTS
\* s.trim() on the entries used here.
Trim(s) == CASE s = " wss://b " -> "wss://b"
             [] s = " "         -> ""
             [] OTHER           -> s

\* JavaScript truthiness of a string-or-undefined value.
Truthy(s) == s # Undefined /\ s # ""

RECURSIVE FilterBoolean(_)
FilterBoolean(list) ==
  IF list = <<>> THEN <<>>
  ELSE IF Truthy(Head(list)) THEN <<Head(list)>> \o FilterBoolean(Tail(list))
       ELSE FilterBoolean(Tail(list))

TrimAll(list) == [k \in 1..Len(list) |-> Trim(list[k])]

\* The third operand of line 24.
BuiltinEndpoints == <<"wss://xrplcluster.com", "wss://s2.ripple.com",
                      "wss://s1.ripple.com">>

\* a || b where a is an array or undefined: an array, even an empty one, is
\* truthy.
OrElse(a, b) == IF a # Undefined THEN a ELSE b

\* A || B || C of lines 21-24: A is undefined when XRPL_SERVERS is (optional
\* chaining), B is always an array, so C (the built-in endpoints) is never
\* the value.
WsDefaultsOf(servers, server) ==
  OrElse(OrElse(IF servers = Undefined THEN Undefined
                ELSE FilterBoolean(TrimAll(servers)),
                FilterBoolean(<<server>>)),
         BuiltinEndpoints)

WS_DEFAULTS == WsDefaultsOf(XRPL_SERVERS, XRPL_SERVER)

\* ------------------------------------------------------------- ensureEnv
ensureEnv == missing = {}

\* ------------------------------------------------------------------ Init
Init ==
  /\ missing \in MissingChoices
  /\ CONTROL_BEARER_TOKEN \in Tokens
  /\ \E e \in EndpointChoices : XRPL_SERVERS = e[1] /\ XRPL_SERVER = e[2]
  /\ booted = FALSE
  /\ wallet = FALSE
  /\ client = NoClient
  /\ orphans = 0
  /\ inFlight = 0
  /\ cycles = EmptyBag
  /\ nCycles = 0
  /\ attempts = EmptyBag
  /\ queued = Rows
  /\ timers = 0
  /\ healths = EmptyBag
  /\ nHealth = 0
  /\ resp = NoResp

\* ------------------------------------------------------------ postWebhook
\* A webhook call is logged when it is issued; res is settled when the
\* await returns ("ok") or throws ("failed").
Post(a, st) ==
  [a EXCEPT !.calls = Append(@, [status |-> st, res |-> Pending]), !.pc = st]

Settle(a, ok) ==
  [a EXCEPT !.calls[Len(a.calls)].res = IF ok THEN "ok" ELSE "failed"]

\* fetch(SUPABASE_WEBHOOK_URL) rejects when the url is undefined.
WebhookOutcomes == IF "SUPABASE_WEBHOOK_URL" \in missing THEN {FALSE} ELSE BOOLEAN

\* The backend leaves "queued" behind when a webhook call delivers a status.
Delivered(a, ok) == IF ok THEN queued \ {a.row} ELSE queued

\* ------------------------------------------------------------- processOne
\* The synchronous head of processOne(row): the "processing" webhook is
\* issued and the function suspends.
processOneStart(row) ==
  Post([row |-> row, pc |-> "start", calls |-> <<>>, ledger |-> <<>>,
        engine |-> Pending], "processing")

\* inFlight++ and inFlight--
Acquire(n) == n + 1
Release(n) == n - 1

\* catch (err): report "failed" (best effort).
Catch(a) == Post(a, "failed")

\* finally: the attempt is over.
Finally(a) == [a EXCEPT !.pc = "done"]

\* The transaction can be built when the wallet is defined and the amount
\* converts to drops.
BuildOutcomes == IF wallet THEN BOOLEAN ELSE {FALSE}

\* Fault: the outcome of the "processing" call is ignored (the call is not
\* awaited inside the try block).
AfterProcessing_Unchecked(a, ok, built) ==
  IF built
  THEN [a EXCEPT !.pc = "autofill", !.ledger = Append(@, "autofill")]
  ELSE Catch(a)

\* await postWebhook("processing") returned or threw; then the transaction is
\* built and client.autofill(tx) is called.
AfterProcessing(a, ok, built) ==
  IF ok /\ built
  THEN [a EXCEPT !.pc = "autofill", !.ledger = Append(@, "autofill")]
  ELSE Catch(a)

\* await client.autofill(tx) returned or threw; then wallet.sign and
\* client.submitAndWait.
AfterAutofill(a, ok) ==
  IF ok
  THEN [a EXCEPT !.pc = "submit", !.ledger = @ \o <<"sign", "submit">>]
  ELSE Catch(a)

\* Fault: only a known rejection code counts as a failure.
EngineOk_NotRejected(engine) == engine # "tecUNFUNDED_PAYMENT"

EngineOk(engine) == engine = "tesSUCCESS"

\* await client.submitAndWait returned a result with this engine code, or
\* threw (res = "threw").
AfterSubmit(a, res) ==
  IF res = "threw" THEN Catch([a EXCEPT !.engine = "threw"])
  ELSE IF ~EngineOk(res) THEN Catch([a EXCEPT !.engine = res])
  ELSE Post([a EXCEPT !.engine = res], "completed")

\* Fault: a failed "completed" report is sent again.
AfterCompleted_Retry(a, ok) == IF ok THEN Finally(a) ELSE Post(a, "completed")

\* await postWebhook("completed") returned or threw (inside the try block).
AfterCompleted(a, ok) == IF ok THEN Finally(a) ELSE Catch(a)

\* Fault: a failed failure report waits for a retry that is never scheduled.
AfterFailed_WaitsForRetry(a, ok) ==
  IF ok THEN Finally(a) ELSE [a EXCEPT !.pc = "retry"]

\* Fault: the failure report is not wrapped in its own try/catch.
AfterFailed_NoInnerTry(a, ok) ==
  IF ok THEN Finally(a) ELSE [a EXCEPT !.pc = "uncaught"]

\* await postWebhook("failed") returned or threw (inside the inner try).
AfterFailed(a, ok) == Finally(a)

Ended(a) == a.pc \in {"done", "uncaught"}

\* An invocation that returned is gone; one that threw stays as a rejection.
Live(a) == IF a.pc = "done" THEN EmptyBag ELSE One(a)

\* Fault: inFlight-- at the end of the try block instead of in finally.
Continue_NoFinally(a, b) ==
  /\ attempts' = (attempts (-) One(a)) (+) Live(b)
  /\ inFlight' = IF a.pc = "completed" /\ b.pc = "done"
                 THEN Release(inFlight) ELSE inFlight
  /\ resp' = NoResp
  /\ UNCHANGED <<config, health, booted, wallet, client, orphans, cycles, nCycles,
                 timers>>

\* One continuation of attempt a, leaving it as b: the finally block runs
\* when the function is left, by return or by throw.
Continue(a, b) ==
  /\ attempts' = (attempts (-) One(a)) (+) Live(b)
  /\ inFlight' = IF Ended(b) THEN Release(inFlight) ELSE inFlight
  /\ resp' = NoResp
  /\ UNCHANGED <<config, health, booted, wallet, client, orphans, cycles, nCycles,
                 timers>>

ProcessingReturn(a, ok, built) ==
  /\ BagIn(a, attempts) /\ a.pc = "processing"
  /\ Continue(a, AfterProcessing(Settle(a, ok), ok, built))
  /\ queued' = Delivered(a, ok)

AutofillReturn(a, ok) ==
  /\ BagIn(a, attempts) /\ a.pc = "autofill"
  /\ Continue(a, AfterAutofill(a, ok))
  /\ UNCHANGED queued

SubmitReturn(a, res) ==
  /\ BagIn(a, attempts) /\ a.pc = "submit"
  /\ Continue(a, AfterSubmit(a, res))
  /\ UNCHANGED queued

CompletedReturn(a, ok) ==
  /\ BagIn(a, attempts) /\ a.pc = "completed"
  /\ Continue(a, AfterCompleted(Settle(a, ok), ok))
  /\ queued' = Delivered(a, ok)

FailedReturn(a, ok) ==
  /\ BagIn(a, attempts) /\ a.pc = "failed"
  /\ Continue(a, AfterFailed(Settle(a, ok), ok))
  /\ queued' = Delivered(a, ok)

\* ---------------------------------------------------------- connectClient
\* for (const url of WS_DEFAULTS): is there an endpoint after those tried,
\* and which one.
HasNextUrl(tried) == Len(tried) < Len(WS_DEFAULTS)
NextUrl(tried)    == WS_DEFAULTS[Len(tried) + 1]

\* connectClient() is entered: the first endpoint is being tried, or (empty
\* list) the call is about to throw with nothing tried.
BeginConnect(c) ==
  [c EXCEPT !.pc = "connecting",
            !.tried = IF HasNextUrl(<<>>) THEN <<NextUrl(<<>>)>> ELSE <<>>]

\* ---------------------------------------------------------------- pollLoop
\* !client || !client.isConnected()
NeedsConnect == client = NoClient \/ ~client.connected

\* Fault: no cap check before the fetch; only the loop checks the cap.
AfterConnect_NoCapCheck(c) == [c EXCEPT !.pc = "fetching"]

\* Lines 148-151: the cap check after the connection check, then the fetch
\* is issued.
AfterConnect(c) ==
  IF inFlight >= MAX_CONCURRENT
  THEN [c EXCEPT !.pc = "done"]
  ELSE [c EXCEPT !.pc = "fetching"]

\* Fault: the catch of line 143 logs but does not return.
ReconnectFailed_FallThrough(c) == AfterConnect(c)

\* catch of line 143: the reconnect failed, the cycle returns.
ReconnectFailed(c) == [c EXCEPT !.pc = "done"]

\* Fault: no return after client = c, the loop goes on to the next endpoint.
OnConnected_KeepGoing(c) ==
  IF HasNextUrl(c.tried)
  THEN [c EXCEPT !.tried = Append(@, NextUrl(c.tried))]
  ELSE AfterConnect(c)

\* await c.connect() succeeded: client = c; return to pollLoop.
OnConnected(c) == AfterConnect(c)

\* await c.connect() threw: the next endpoint, or throw after the last one.
OnConnectFailed(c) ==
  IF HasNextUrl(c.tried)
  THEN [c EXCEPT !.tried = Append(@, NextUrl(c.tried))]
  ELSE ReconnectFailed(c)

\* pollLoop() up to its first await.
pollLoopStart ==
  LET c == [pc |-> "start", tried |-> <<>>]
  IN IF NeedsConnect THEN BeginConnect(c) ELSE AfterConnect(c)

RECURSIVE QueuedFrom(_)
QueuedFrom(r) ==
  IF r > MaxRows THEN <<>>
  ELSE IF r \in queued THEN <<r>> \o QueuedFrom(r + 1)
       ELSE QueuedFrom(r + 1)

\* Fault: the query leaves out the rows an attempt of this process holds.
fetchQueued_SkipInFlight(limit) ==
  LET q == SelectSeq(QueuedFrom(1),
                     LAMBDA r : \A a \in BagToSet(attempts) : a.row # r)
  IN SubSeq(q, 1, IF Len(q) < limit THEN Len(q) ELSE limit)

\* fetchQueued(limit): status=eq.queued, order=requested_at.asc, limit.
fetchQueued(limit) ==
  LET q == QueuedFrom(1) IN SubSeq(q, 1, IF Len(q) < limit THEN Len(q) ELSE limit)

\* fetch of `${SUPABASE_URL}/rest/...` rejects when the url is undefined.
FetchOutcomes == IF "SUPABASE_URL" \in missing THEN {FALSE} ELSE BOOLEAN

\* Fault: the loop breaks on inFlight > cap, one row too late.
DispatchLoop_OffByOne(rows, n) ==
  LET Room == IF MAX_CONCURRENT + 1 > n THEN MAX_CONCURRENT + 1 - n ELSE 0
  IN SubSeq(rows, 1, IF Len(rows) < Room THEN Len(rows) ELSE Room)

\* Fault: the cap is checked before the fetch only, not in the loop.
DispatchLoop_NoRecheck(rows, n) == rows

\* for (const row of rows) { if (inFlight >= cap) break; processOne(row); }
\* with n the value of inFlight at the head of the loop: the rows dispatched.
RECURSIVE DispatchLoop(_, _)
DispatchLoop(rows, n) ==
  IF rows = <<>> \/ n >= MAX_CONCURRENT THEN <<>>
  ELSE <<Head(rows)>> \o DispatchLoop(Tail(rows), Acquire(n))

RECURSIVE Started(_)
Started(rows) ==
  IF rows = <<>> THEN EmptyBag
  ELSE One(processOneStart(Head(rows))) (+) Started(Tail(rows))

RECURSIVE AcquireAll(_, _)
AcquireAll(rows, n) ==
  IF rows = <<>> THEN n ELSE AcquireAll(Tail(rows), Acquire(n))

Boot ==
  /\ ~booted
  /\ booted' = TRUE
  /\ wallet' = ensureEnv
  /\ resp' = NoResp
  /\ UNCHANGED <<config, health, client, orphans, inFlight, cycles, nCycles, attempts,
                 queued, timers>>

\* A pollLoop invocation starts.
Invoke ==
  /\ nCycles < MaxCycles
  /\ nCycles' = nCycles + 1
  /\ cycles' = cycles (+) Live(pollLoopStart)
  /\ resp' = NoResp
  /\ UNCHANGED <<config, health, booted, wallet, client, orphans, inFlight, attempts,
                 queued>>

\* setInterval(pollLoop, POLLING_INTERVAL_MS) fires.
IntervalTick ==
  /\ booted
  /\ Invoke
  /\ UNCHANGED timers

\* setTimeout(pollLoop, 50) of POST /process fires.
TimeoutFire ==
  /\ timers > 0
  /\ timers' = timers - 1
  /\ Invoke

ConnectReturn(c, ok) ==
  /\ BagIn(c, cycles) /\ c.pc = "connecting"
  /\ IF ok
     THEN /\ c.tried # <<>>
          /\ client' = [url |-> c.tried[Len(c.tried)], connected |-> TRUE]
          /\ orphans' = IF client.connected THEN orphans + 1 ELSE orphans
          /\ cycles' = (cycles (-) One(c)) (+) Live(OnConnected(c))
     ELSE /\ cycles' = (cycles (-) One(c)) (+) Live(OnConnectFailed(c))
          /\ UNCHANGED <<client, orphans>>
  /\ resp' = NoResp
  /\ UNCHANGED <<config, health, booted, wallet, inFlight, nCycles, attempts, queued,
                 timers>>

FetchReturn(c, ok) ==
  /\ BagIn(c, cycles) /\ c.pc = "fetching"
  /\ cycles' = cycles (-) One(c)
  /\ IF ok
     THEN LET rows == DispatchLoop(fetchQueued(MAX_CONCURRENT), inFlight) IN
          /\ attempts' = attempts (+) Started(rows)
          /\ inFlight' = AcquireAll(rows, inFlight)
     ELSE UNCHANGED <<attempts, inFlight>>
  /\ resp' = NoResp
  /\ UNCHANGED <<config, health, booted, wallet, client, orphans, nCycles, queued,
                 timers>>

\* The stored session drops (network event).
SessionDrop ==
  /\ client.connected
  /\ client' = [client EXCEPT !.connected = FALSE]
  /\ resp' = NoResp
  /\ UNCHANGED <<config, health, booted, wallet, orphans, inFlight, cycles, nCycles,
                 attempts, queued, timers>>

\* A session that is no longer stored drops.
OrphanDrop ==
  /\ orphans > 0
  /\ orphans' = orphans - 1
  /\ resp' = NoResp
  /\ UNCHANGED <<config, health, booted, wallet, client, inFlight, cycles, nCycles,
                 attempts, queued, timers>>

\* ------------------------------------------------------------ POST /process
\* req.headers.authorization || ""
OrEmpty(h) == IF Truthy(h) THEN h ELSE ""

\* Fault: the check is skipped when the request has no Authorization header.
Authorized_HeaderOptional(token, h) ==
  ~Truthy(token) \/ ~Truthy(h) \/ OrEmpty(h) = "Bearer " \o token

\* The request passes the bearer check of lines 182-187.
Authorized(token, h) ==
  ~Truthy(token) \/ OrEmpty(h) = "Bearer " \o token

PostProcess(h) ==
  /\ booted
  /\ IF Authorized(CONTROL_BEARER_TOKEN, h)
     THEN /\ nCycles + timers < MaxCycles
          /\ timers' = timers + 1
          /\ resp' = [auth |-> h, code |-> 200, started |-> TRUE]
     ELSE /\ resp' = [auth |-> h, code |-> 401, started |-> FALSE]
          /\ UNCHANGED timers
  /\ UNCHANGED <<config, health, booted, wallet, client, orphans, inFlight, cycles,
                 nCycles, attempts, queued>>

\* -------------------------------------------------------------- GET /health
\* Fault: xrpl_connected reports !!client, without client.isConnected().
HealthJson_ClientOnly(cl, w, n) ==
  [code |-> 200, ok |-> TRUE, xrpl_connected |-> cl # NoClient,
   hot_wallet |-> w, inflight |-> n]

\* The body of lines 169-174 for the stored client cl, wallet w, counter n.
HealthJson(cl, w, n) ==
  [code |-> 200, ok |-> TRUE, xrpl_connected |-> cl # NoClient /\ cl.connected,
   hot_wallet |-> w, inflight |-> n]

\* catch of line 175.
HealthError == [code |-> 500, ok |-> FALSE]

\* The handler up to its first await, or to its response when it has none.
GetHealth ==
  /\ booted
  /\ nHealth < MaxHealth
  /\ nHealth' = nHealth + 1
  /\ IF ~ensureEnv
     THEN /\ resp' = HealthError
          /\ UNCHANGED <<wallet, healths>>
     ELSE /\ wallet' = TRUE
          /\ IF NeedsConnect
             THEN /\ healths' = healths (+)
                       One(BeginConnect([pc |-> "start", tried |-> <<>>]))
                  /\ resp' = NoResp
             ELSE /\ resp' = HealthJson(client, TRUE, inFlight)
                  /\ UNCHANGED healths
  /\ UNCHANGED <<config, booted, client, orphans, inFlight, cycles, nCycles,
                 attempts, queued, timers>>

\* await connectClient() of line 167 moves on: an endpoint answered, the next
\* one is tried, or the throw after the last one is swallowed.
HealthConnectReturn(h, ok) ==
  /\ BagIn(h, healths)
  /\ IF ok
     THEN /\ h.tried # <<>>
          /\ client' = [url |-> h.tried[Len(h.tried)], connected |-> TRUE]
          /\ orphans' = IF client.connected THEN orphans + 1 ELSE orphans
          /\ healths' = healths (-) One(h)
          /\ resp' = HealthJson(client', wallet, inFlight)
     ELSE /\ IF HasNextUrl(h.tried)
             THEN /\ healths' = (healths (-) One(h)) (+)
                       One([h EXCEPT !.tried = Append(@, NextUrl(h.tried))])
                  /\ resp' = NoResp
             ELSE /\ healths' = healths (-) One(h)
                  /\ resp' = HealthJson(client, wallet, inFlight)
          /\ UNCHANGED <<client, orphans>>
  /\ UNCHANGED <<config, booted, wallet, inFlight, cycles, nCycles, attempts,
                 queued, timers, nHealth>>

\* ------------------------------------------------------------------ Next
\* One step of the service when POST /process requests carry a header of H.
Step(H) ==
  \/ Boot
  \/ IntervalTick
  \/ TimeoutFire
  \/ \E h \in H : PostProcess(h)
  \/ \E c \in BagToSet(cycles), ok \in BOOLEAN : ConnectReturn(c, ok)
  \/ \E c \in BagToSet(cycles), ok \in FetchOutcomes : FetchReturn(c, ok)
  \/ SessionDrop
  \/ OrphanDrop
  \/ \E a \in BagToSet(attempts), ok \in WebhookOutcomes, built \in BuildOutcomes :
        ProcessingReturn(a, ok, built)
  \/ \E a \in BagToSet(attempts), ok \in BOOLEAN : AutofillReturn(a, ok)
  \/ \E a \in BagToSet(attempts), res \in Engines \cup {"threw"} : SubmitReturn(a, res)
  \/ \E a \in BagToSet(attempts), ok \in WebhookOutcomes : CompletedReturn(a, ok)
  \/ \E a \in BagToSet(attempts), ok \in WebhookOutcomes : FailedReturn(a, ok)

\* The whole service, every configuration; requests carry the right header
\* or none.
Next == Step(PlainHeaders)

Spec == Init /\ [][Next]_vars

\* The control surface: every header of AuthHeaders, against a service whose
\* required configuration is complete and whose endpoint is XRPL_SERVER.
InitControl ==
  /\ Init
  /\ missing = {}
  /\ XRPL_SERVERS = Undefined /\ XRPL_SERVER # Undefined

NextControl == Step(AuthHeaders)

SpecControl == InitControl /\ [][NextControl]_vars

\* The connection and polling logic: every endpoint setting, against a
\* service whose required configuration is complete and whose control surface
\* is open.
InitConnect ==
  /\ Init
  /\ missing = {}
  /\ CONTROL_BEARER_TOKEN = ""

SpecConnect == InitConnect /\ [][Next]_vars

\* The service with its health probe: requests to GET /health arrive beside
\* the poll cycles, against a service whose control surface is open, whose
\* endpoint is XRPL_SERVER and whose required configuration is complete or
\* lacks the backend address.
InitHealth ==
  /\ Init
  /\ missing \subseteq {"SUPABASE_URL"}
  /\ XRPL_SERVERS = Undefined /\ XRPL_SERVER # Undefined
  /\ CONTROL_BEARER_TOKEN = ""

NextHealth ==
  \/ Next
  \/ GetHealth
  \/ \E h \in BagToSet(healths), ok \in BOOLEAN : HealthConnectReturn(h, ok)

SpecHealth == InitHealth /\ [][NextHealth]_vars

\* The service when every network call of an attempt returns or throws:
\* each await of processOne is resumed (weak fairness on its return), against
\* a service whose configuration is complete and whose endpoint is
\* XRPL_SERVER.
InitLive ==
  /\ InitControl
  /\ CONTROL_BEARER_TOKEN = ""

AttemptReturns ==
  \/ \E a \in BagToSet(attempts), ok \in WebhookOutcomes, built \in BuildOutcomes :
        ProcessingReturn(a, ok, built)
  \/ \E a \in BagToSet(attempts), ok \in BOOLEAN : AutofillReturn(a, ok)
  \/ \E a \in BagToSet(attempts), res \in Engines \cup {"threw"} : SubmitReturn(a, res)
  \/ \E a \in BagToSet(attempts), ok \in WebhookOutcomes : CompletedReturn(a, ok)
  \/ \E a \in BagToSet(attempts), ok \in WebhookOutcomes : FailedReturn(a, ok)

SpecLive == InitLive /\ [][Next]_vars /\ WF_vars(AttemptReturns)

TypeOK ==
  /\ inFlight \in Int
  /\ \A a \in BagToSet(attempts) :
       a.pc \in {"processing", "autofill", "submit", "completed", "failed",
                 "uncaught"}
  /\ \A c \in BagToSet(cycles) : c.pc \in {"connecting", "fetching", "uncaught"}

\* ================================================================ claims
Attempts == BagToSet(attempts)
Cycles   == BagToSet(cycles)

\* Number of webhook calls of attempt a that report status st.
Count(a, st) == Cardinality({k \in 1..Len(a.calls) : a.calls[k].status = st})

\* Number of records of bag B whose pc is p.
AtPc(B, p) ==
  LET S == {x \in BagToSet(B) : x.pc = p} IN BagCardinality([x \in S |-> B[x]])

\* C1: an attempt touches the ledger (autofill, sign, submitAndWait) only
\* after its "processing" webhook call has returned successfully; an attempt
\* whose "processing" call failed has performed no ledger operation.
C1_LedgerOnlyAfterProcessing ==
  \A a \in Attempts :
    /\ a.ledger # <<>> => a.calls[1].status = "processing" /\ a.calls[1].res = "ok"
    /\ a.calls[1].res = "failed" => a.ledger = <<>>

\* The "processing" call of an attempt failed and the attempt went on to its
\* failure report.
C1_Witness ==
  \E a \in Attempts : a.calls[1].res = "failed" /\ a.pc = "failed"

\* C2: an attempt whose submission returned "tesSUCCESS" has made exactly one
\* "processing" call and exactly one "completed" call, the "processing" call
\* first (and returned) before the "completed" call was issued.
C2_SuccessReportsOnce ==
  \A a \in Attempts :
    a.engine = "tesSUCCESS" =>
      /\ Count(a, "processing") = 1
      /\ Count(a, "completed") = 1
      /\ a.calls[1].status = "processing" /\ a.calls[1].res = "ok"
      /\ a.calls[2].status = "completed"

\* A successful submission whose "completed" call has been answered with an
\* error: still one "completed" call.
C2_Witness ==
  \E a \in Attempts :
    a.engine = "tesSUCCESS" /\ Len(a.calls) > 2 /\ a.calls[2].res = "failed"

\* C3: an attempt whose engine result is not "tesSUCCESS" (another code, no
\* result field, or a submission that threw) has made exactly one
\* "processing" call, exactly one "failed" call and no "completed" call.
C3_FailureReportsOnce ==
  \A a \in Attempts :
    a.engine \notin {Pending, "tesSUCCESS"} =>
      /\ Count(a, "processing") = 1
      /\ Count(a, "failed") = 1
      /\ Count(a, "completed") = 0

\* A submission that returned no engine result is being reported as failed.
C3_Witness ==
  \E a \in Attempts : a.engine = Undefined /\ a.pc = "failed"

\* C4: the in-flight count never exceeds MAX_CONCURRENT.
C4_CapHolds == inFlight <= MAX_CONCURRENT

\* The cap is reached while another poll cycle, past its own cap check, is
\* suspended in its fetch and rows are still queued.
C4_Witness ==
  /\ inFlight = MAX_CONCURRENT
  /\ queued # {}
  /\ AtPc(cycles, "fetching") >= 1

\* C5: the counter is the number of attempts started and not yet ended,
\* whatever paths the ended attempts took; it is never negative.
C5_CounterIsLiveAttempts ==
  /\ inFlight = BagCardinality(attempts) - AtPc(attempts, "uncaught")
  /\ inFlight >= 0

\* Both rows were delivered a status by attempts that have all ended, and
\* the counter is back to its initial value.
C5_Witness ==
  /\ queued = {}
  /\ attempts = EmptyBag
  /\ inFlight = 0

\* C6 (as claimed): no "failed" status is reported by an attempt whose
\* submission returned "tesSUCCESS"; a failed "completed" call is the last
\* webhook call of its attempt.
C6_TerminalFailureSwallowed ==
  \A a \in Attempts :
    /\ a.engine = "tesSUCCESS" => Count(a, "failed") = 0
    /\ \A k \in 1..Len(a.calls) :
         a.calls[k].status = "completed" /\ a.calls[k].res = "failed"
           => k = Len(a.calls)

\* C7: no processOne invocation and no pollLoop invocation ends with an
\* uncaught error.
C7_NothingEscapes ==
  /\ \A a \in Attempts : a.pc # "uncaught"
  /\ \A c \in Cycles : c.pc # "uncaught"

\* One attempt is in its failure report after a failed failure path, another
\* attempt has reached its own terminal report, and a poll cycle is running.
C7_Witness ==
  /\ \E a \in Attempts : a.pc = "failed" /\ a.calls[1].res = "failed"
  /\ \E b \in Attempts : b.pc = "completed"
  /\ AtPc(cycles, "fetching") >= 1

\* A step in which a c.connect() succeeded: a connected session is stored,
\* over a dead or absent one or orphaning a live one.
ConnSuccess == client'.connected /\ (~client.connected \/ orphans' = orphans + 1)

\* A step in which a suspended connectClient call ended.
ConnectEnded == AtPc(cycles', "connecting") < AtPc(cycles, "connecting")

\* C8: with a control token configured, POST /process schedules a poll cycle
\* exactly when the Authorization header is "Bearer <token>", and answers 401
\* without scheduling otherwise; without a token every request is accepted.
\* An accepted request is answered ok/started in the step that schedules the
\* cycle, before any poll cycle has started.
C8_ProcessAuth ==
  [][resp' # NoResp =>
       LET configured == CONTROL_BEARER_TOKEN # ""
           exact      == resp'.auth = "Bearer " \o CONTROL_BEARER_TOKEN
       IN /\ configured => ((timers' = timers + 1) <=> exact)
          /\ configured /\ ~exact =>
               resp'.code = 401 /\ ~resp'.started /\ timers' = timers
          /\ ~configured \/ exact =>
               resp'.code = 200 /\ resp'.started /\ timers' = timers + 1
          /\ nCycles' = nCycles /\ cycles' = cycles /\ attempts' = attempts
    ]_vars

\* A header that extends the right one by a blank was answered 401.
C8_Witness ==
  /\ CONTROL_BEARER_TOKEN = "s3cret"
  /\ resp.code = 401
  /\ resp.auth = "Bearer s3cret "
  /\ timers = 0

\* C9: connectClient tries the endpoints in list order; the step in which a
\* connect succeeds stores that endpoint's session as client and ends the
\* call with no further endpoint tried; the call fails only after the whole
\* list was tried, and a failing connect leaves client as it was.
C9_ConnectInOrder ==
  [][/\ \A c \in BagToSet(cycles') :
          c.tried = SubSeq(WS_DEFAULTS, 1, Len(c.tried))
     /\ ConnSuccess =>
          \E c \in Cycles :
            /\ c.pc = "connecting" /\ c.tried # <<>>
            /\ client'.url = c.tried[Len(c.tried)]
            /\ \/ cycles' = cycles (-) One(c)
               \/ cycles' = (cycles (-) One(c)) (+) One([c EXCEPT !.pc = "fetching"])
     /\ ConnectEnded /\ ~ConnSuccess =>
          /\ client' = client
          /\ \E c \in Cycles :
               /\ c.pc = "connecting" /\ c.tried = WS_DEFAULTS
               /\ cycles' = cycles (-) One(c)
     /\ cycles' # cycles /\ ~ConnSuccess => client' = client
    ]_vars

\* The second endpoint of the list became the client: the first was tried
\* and failed, the second succeeded.
C9_Witness ==
  /\ Len(WS_DEFAULTS) = 2
  /\ client.url = WS_DEFAULTS[2]
  /\ client.connected

\* C10: a starting poll cycle enters connectClient exactly when no client is
\* stored or the stored client is disconnected; a reconnect that fails ends
\* the cycle in that step with no fetch issued, no payout dispatched and the
\* counter untouched, as do all steps of the reconnect.
C10_ReconnectGate ==
  [][/\ nCycles' = nCycles + 1 =>
          /\ (AtPc(cycles', "connecting") = AtPc(cycles, "connecting") + 1)
               <=> (client = NoClient \/ ~client.connected)
          /\ attempts' = attempts /\ inFlight' = inFlight
     /\ ConnectEnded /\ ~ConnSuccess =>
          /\ BagCardinality(cycles') = BagCardinality(cycles) - 1
          /\ AtPc(cycles', "fetching") = AtPc(cycles, "fetching")
          /\ attempts' = attempts /\ inFlight' = inFlight
     /\ (\E c \in Cycles : c.pc = "connecting" /\ ~BagIn(c, cycles')) =>
          attempts' = attempts /\ inFlight' = inFlight
    ]_vars

\* A poll cycle ran against a non-empty endpoint list and ended with no
\* client stored: its reconnect failed; nothing was fetched or dispatched.
C10_Witness ==
  /\ nCycles >= 1 /\ cycles = EmptyBag
  /\ WS_DEFAULTS # <<>>
  /\ client = NoClient
  /\ attempts = EmptyBag /\ inFlight = 0 /\ queued = Rows

\* C11 (as claimed): when a required variable is missing the interval timer
\* never starts a poll cycle and no payout attempt ever exists.
C11_MissingEnvIsFatal ==
  [][missing # {} =>
       /\ ~(nCycles' = nCycles + 1 /\ timers' = timers)
       /\ attempts' = EmptyBag
    ]_vars

\* A step of a GET /health handler: a request arrives, or a suspended
\* handler moves on.
HealthStep == nHealth' # nHealth \/ healths' # healths

\* C12 (as claimed): with valid configuration, once a connection attempt has
\* succeeded every later GET /health response reports xrpl_connected: true,
\* and GET /health never changes the in-flight counter.
C12_ConnectedOnceAlwaysReported ==
  [][(HealthStep /\ missing = {}) =>
       /\ inFlight' = inFlight
       /\ (client' # NoClient /\ resp'.code = 200) => resp'.xrpl_connected
    ]_vars

\* C12 (amended): with valid configuration a GET /health response reports
\* xrpl_connected: true exactly when the stored client is connected at the
\* moment the response is sent, so it reports false when the session has
\* dropped and the reconnect of the handler failed; its inflight field is the
\* counter, and GET /health never changes the counter or the attempts.
C12_HealthReportsSession ==
  [][(HealthStep /\ missing = {}) =>
       /\ inFlight' = inFlight /\ attempts' = attempts
       /\ resp' # NoResp =>
            /\ resp'.code = 200
            /\ resp'.xrpl_connected = client'.connected
            /\ resp'.inflight = inFlight
    ]_vars

\* A health response of "not connected" from a service that holds a session
\* which dropped, while attempts are in flight.
C12_Witness ==
  /\ missing = {}
  /\ "xrpl_connected" \in DOMAIN resp
  /\ ~resp.xrpl_connected
  /\ client # NoClient
  /\ resp.inflight = inFlight /\ inFlight > 0

\* A step in which a suspended fetchQueued call ended.
FetchEnded == AtPc(cycles', "fetching") < AtPc(cycles, "fetching")

\* Number of live attempts of bag B for row r.
ForRow(B, r) ==
  LET S == {x \in BagToSet(B) : x.row = r} IN BagCardinality([x \in S |-> B[x]])

\* C13: nothing claims a row between its fetch and its dispatch: the step
\* that ends a fetch leaves every row queued, and when it dispatches at all
\* it dispatches the oldest queued row, whether or not an attempt for that
\* row is already in flight. Hence a row can be dispatched twice (witness).
C13_NoClaimStep ==
  [][FetchEnded =>
       /\ queued' = queued
       /\ attempts' # attempts =>
            LET oldest == CHOOSE r \in queued : \A q \in queued : r <= q
            IN ForRow(attempts', oldest) = ForRow(attempts, oldest) + 1
    ]_vars

\* Two live attempts for one request id, both past submitAndWait's call.
C13_Witness ==
  \E r \in Rows :
    LET S == {a \in Attempts : a.row = r /\ a.pc = "submit"}
    IN BagCardinality([a \in S |-> attempts[a]]) >= 2

\* C14: a cycle whose fetch returned rows r1..rn while the counter is k
\* dispatches exactly the first min(n, max(0, MAX_CONCURRENT - k)) of them,
\* each once and all in the same step (no attempt has moved on or ended),
\* and leaves the other rows alone; a fetch that threw dispatches nothing.
C14_DispatchPrefix ==
  [][FetchEnded =>
       LET k       == inFlight
           fetched == {r \in queued :
                         Cardinality({q \in queued : q < r}) < MAX_CONCURRENT}
           n       == Cardinality(fetched)
           room    == IF MAX_CONCURRENT - k > 0 THEN MAX_CONCURRENT - k ELSE 0
           m       == IF n < room THEN n ELSE room
           first   == {r \in fetched : Cardinality({q \in fetched : q < r}) < m}
           fresh(r) == [row |-> r, pc |-> "processing",
                        calls |-> <<[status |-> "processing", res |-> Pending]>>,
                        ledger |-> <<>>, engine |-> Pending]
       IN \/ attempts' = attempts /\ inFlight' = k
          \/ /\ m > 0
             /\ attempts' = attempts (+) SetToBag({fresh(r) : r \in first})
             /\ inFlight' = k + m
    ]_vars

\* A cycle found one free slot (k = 1) and two fetched rows: the first row
\* has been dispatched beside the attempt already running for it, the second
\* row has no attempt.
C14_Witness ==
  /\ inFlight = MAX_CONCURRENT
  /\ cycles = EmptyBag /\ nCycles = 2
  /\ queued = Rows
  /\ \A a \in Attempts : a.row = 1 /\ a.pc = "processing"
  /\ BagCardinality(attempts) = 2

\* A step in which a pollLoop invocation passed its connection check: it
\* started with a connected client, or its connectClient call succeeded.
PassedConnectionCheck ==
  \/ nCycles' = nCycles + 1 /\ client # NoClient /\ client.connected
  \/ ConnectEnded /\ ConnSuccess

\* C15: a cycle that finds inFlight >= MAX_CONCURRENT after its connection
\* check ends there: no fetch is issued and no attempt is dispatched.
C15_AtCapNoFetch ==
  [][(PassedConnectionCheck /\ inFlight >= MAX_CONCURRENT) =>
       /\ AtPc(cycles', "fetching") = AtPc(cycles, "fetching")
       /\ BagCardinality(cycles') <= BagCardinality(cycles)
       /\ attempts' = attempts
       /\ inFlight' = inFlight
    ]_vars

\* The second cycle started with the session up and the counter at the cap,
\* and is over: both attempts of the first cycle are as they were dispatched.
C15_Witness ==
  /\ nCycles = 2 /\ cycles = EmptyBag
  /\ client.connected /\ orphans = 0
  /\ inFlight = MAX_CONCURRENT
  /\ \E a, b \in Attempts :
       /\ a.row = 1 /\ b.row = 2
       /\ a.pc = "processing" /\ b.pc = "processing"
  /\ BagCardinality(attempts) = 2

\* C16: when every network call of an attempt returns or throws, the
\* counter does not stay at the cap, every attempt in flight ends and gives
\* back its slot, and an attempt ends only from a terminal report
\* ("completed", or "failed" from the catch block).
C16_SlotsReleased ==
  /\ (inFlight = MAX_CONCURRENT) ~> (inFlight < MAX_CONCURRENT)
  /\ (attempts # EmptyBag) ~> (attempts = EmptyBag /\ inFlight = 0)
  /\ [][BagCardinality(attempts') < BagCardinality(attempts) =>
          /\ \E b \in Attempts :
               /\ b.pc \in {"completed", "failed"}
               /\ CopiesIn(b, attempts') < CopiesIn(b, attempts)
          /\ inFlight' = inFlight - 1
       ]_vars

\* The counter is at the cap with both attempts waiting for submitAndWait.
C16_Witness ==
  /\ inFlight = MAX_CONCURRENT
  /\ BagCardinality(attempts) = MAX_CONCURRENT
  /\ \A a \in Attempts : a.pc = "submit"
  /\ cycles = EmptyBag /\ nCycles = MaxCycles /\ timers = 0

\* C17 (as claimed): at every moment at most one connected ledger session
\* exists, the stored client or a session it replaced.
C17_SingleSession ==
  (IF client.connected THEN 1 ELSE 0) + orphans <= 1

\* C18 (as claimed): the endpoint list is never empty, and it is the three
\* built-in endpoints when neither XRPL_SERVERS nor XRPL_SERVER yields an
\* entry; so a connectClient call always has an endpoint to try.
C18_EndpointsNeverEmpty ==
  \A c \in Cycles : c.pc = "connecting" =>
    /\ WS_DEFAULTS # <<>>
    /\ c.tried # <<>>
    /\ (XRPL_SERVERS = Undefined /\ XRPL_SERVER = Undefined) =>
         c.tried[1] = BuiltinEndpoints[1]

====
